---- MODULE Spec2Model ----
(***************************************************************************)
(* State-machine model of the Mimos analytics SDK: the backend tracker     *)
(* MimosAnalytics, the frontend tracker MimosFrontendAnalytics (both in    *)
(* src/src/client.ts) and the call-tracking wrapper ToolCallTracker        *)
(* (src/src/tracker.ts).                                                   *)
(*                                                                         *)
(* JavaScript runs the synchronous part of an async method, up to its      *)
(* first await, without interruption; every action below is one such       *)
(* uninterrupted piece: a call up to its first suspension, or the          *)
(* resumption of a suspended call up to its next suspension or its return. *)
(* The two trackers share no state; a behaviour exercises one of them,     *)
(* chosen in Init (target): the frontend tracker, or the backend tracker   *)
(* together with the wrapper built on it.                                  *)
(***************************************************************************)
EXTENDS Integers, Sequences, FiniteSets, Bags, TLC

\* ---------------------------------------------------------------- bounds
MaxCalls == 4        \* calls made on the frontend tracker in one behaviour
MaxInFlight == 2     \* calls suspended at the same time
MaxOperating == 1    \* of these, wrapper calls whose operation is still running

\* ------------------------------------------------------------ JS values
NULL == "null"            \* JavaScript null (string-typed slots)
UNDEF == "undefined"      \* JavaScript undefined (string-typed slots)
NoTime == -1              \* JavaScript null in a number-typed slot
NoNum == -2               \* JavaScript undefined in a number-typed slot
THROWS == "<throws TypeError>"   \* JSON.stringify throwing instead of returning

\* !v for the string-typed slots: null, undefined and "" are falsy
FalsyStr(v) == v \in {NULL, UNDEF, ""}
\* !v for the number-typed slots: null, undefined and 0 are falsy
FalsyNum(n) == n \in {NoTime, NoNum, 0}

Times == {1, 2}                      \* values of Date.now(), which never decreases
CallTimes == {1}                     \* Date.now() in a call that starts a session or an operation
Screens == {"A", "B"}
SuppliedIds == {UNDEF, "", "s1"}     \* payload.session_id as the caller passes it
GenIds == {"g1"}                     \* values of `${Date.now()}-${random}`
ExitReasons == {"user_exit"}

\* Values an operation returns or a caller passes as parameters: undefined, the
\* number 0, the object {a: 1}, and an object that refers to itself
JSValues == {UNDEF, "0", "obj", "circular"}
TruthyValue(v) == v \in {"obj", "circular"}

\* JSON.stringify(v): a string, undefined for undefined, or a TypeError
JSONText(v) ==
    CASE v = UNDEF -> UNDEF
      [] v = "0" -> "0"
      [] v = "obj" -> "{\"a\":1}"
      [] v = "circular" -> THROWS

\* JSON.stringify of an array: undefined elements are written as null
RECURSIVE JSONItems(_)
JSONItems(a) ==
    IF Len(a) = 0 THEN ""
    ELSE LET h == IF a[1] = UNDEF THEN "null" ELSE JSONText(a[1])
             t == JSONItems(Tail(a))
         IN IF h = THROWS \/ t = THROWS THEN THROWS
            ELSE IF Len(a) = 1 THEN h ELSE h \o "," \o t

JSONArray(a) ==
    LET items == JSONItems(a) IN
    IF items = THROWS THEN THROWS ELSE "[" \o items \o "]"

\* Values an operation throws (or a caller passes as the error): Error objects,
\* named by an identifier, and the plain string "oops"
ErrorObjects == {"E_named", "E_timed", "E_validation", "E_rate", "E_type",
                 "E_both", "E_net"}
Thrown == ErrorObjects \cup {"S_oops"}

\* error instanceof Error
IsError(e) == e \in ErrorObjects

\* error.name
ErrName(e) ==
    CASE e = "E_named" -> "TimeoutError"
      [] e = "E_validation" -> "ValidationError"
      [] e = "E_type" -> "TypeError"
      [] OTHER -> "Error"

\* error.constructor.name
ErrCtor(e) ==
    CASE e = "E_validation" -> "ValidationError"
      [] e = "E_type" -> "TypeError"
      [] OTHER -> "Error"

\* error.message, or the string itself
ErrMessage(e) ==
    CASE e = "E_named" -> "slow"
      [] e = "E_timed" -> "Request Timed Out"
      [] e = "E_validation" -> "boom"
      [] e = "E_rate" -> "429 Fetch"
      [] e = "E_type" -> "boom"
      [] e = "E_both" -> "Invalid Timeout"
      [] e = "E_net" -> "Fetch failed: ECONNREFUSED"
      [] e = "S_oops" -> "oops"

\* error.stack: present on Error objects only
ErrStack(e) == IF IsError(e) THEN "stack" ELSE UNDEF

Upper == <<"A", "B", "C", "D", "E", "F", "G", "H", "I", "J", "K", "L", "M", "N", "O", "P", "Q", "R", "S", "T", "U", "V", "W", "X", "Y", "Z">>
Lower == <<"a", "b", "c", "d", "e", "f", "g", "h", "i", "j", "k", "l", "m", "n", "o", "p", "q", "r", "s", "t", "u", "v", "w", "x", "y", "z">>

ToLowerChar(c) ==
    IF \E i \in 1..26 : Upper[i] = c
    THEN Lower[CHOOSE i \in 1..26 : Upper[i] = c]
    ELSE c

\* the characters of the strings that name or describe the errors above
Chars(s) ==
    CASE s = "TimeoutError" -> <<"T", "i", "m", "e", "o", "u", "t", "E", "r", "r", "o", "r">>
      [] s = "ValidationError" -> <<"V", "a", "l", "i", "d", "a", "t", "i", "o", "n", "E", "r", "r", "o", "r">>
      [] s = "TypeError" -> <<"T", "y", "p", "e", "E", "r", "r", "o", "r">>
      [] s = "Error" -> <<"E", "r", "r", "o", "r">>
      [] s = "slow" -> <<"s", "l", "o", "w">>
      [] s = "Request Timed Out" -> <<"R", "e", "q", "u", "e", "s", "t", " ", "T", "i", "m", "e", "d", " ", "O", "u", "t">>
      [] s = "boom" -> <<"b", "o", "o", "m">>
      [] s = "429 Fetch" -> <<"4", "2", "9", " ", "F", "e", "t", "c", "h">>
      [] s = "Invalid Timeout" -> <<"I", "n", "v", "a", "l", "i", "d", " ", "T", "i", "m", "e", "o", "u", "t">>
      [] s = "Fetch failed: ECONNREFUSED" -> <<"F", "e", "t", "c", "h", " ", "f", "a", "i", "l", "e", "d", ":", " ", "E", "C", "O", "N", "N", "R", "E", "F", "U", "S", "E", "D">>
      [] s = "oops" -> <<"o", "o", "p", "s">>

\* a variant that compares without folding case
ToLowerCaseKeeps(s) == s

\* String.prototype.toLowerCase
ToLowerCase(s) == [i \in 1..Len(s) |-> ToLowerChar(s[i])]

\* String.prototype.includes
Includes(s, sub) ==
    \E i \in 0..(Len(s) - Len(sub)) : SubSeq(s, i + 1, i + Len(sub)) = sub

\* ToolCallTracker.inferErrorType
InferErrorType(error) ==
    IF ~IsError(error) THEN "unknown"
    ELSE LET message == ToLowerCase(Chars(ErrMessage(error)))
             name == ToLowerCase(Chars(ErrName(error)))
         IN IF \/ Includes(name, <<"t", "i", "m", "e", "o", "u", "t">>)
               \/ Includes(message, <<"t", "i", "m", "e", "o", "u", "t">>)
               \/ Includes(message, <<"t", "i", "m", "e", "d", " ", "o", "u", "t">>)
            THEN "timeout"
            ELSE IF \/ Includes(name, <<"v", "a", "l", "i", "d", "a", "t", "i", "o", "n">>)
                    \/ Includes(message, <<"i", "n", "v", "a", "l", "i", "d">>)
                    \/ Includes(message, <<"r", "e", "q", "u", "i", "r", "e", "d">>)
            THEN "validation"
            ELSE IF \/ Includes(message, <<"r", "a", "t", "e", " ", "l", "i", "m", "i", "t">>)
                    \/ Includes(message, <<"t", "o", "o", " ", "m", "a", "n", "y", " ", "r", "e", "q", "u", "e", "s", "t", "s">>)
                    \/ Includes(message, <<"4", "2", "9">>)
            THEN "rate_limit"
            ELSE IF \/ Includes(message, <<"n", "e", "t", "w", "o", "r", "k">>)
                    \/ Includes(message, <<"f", "e", "t", "c", "h">>)
                    \/ Includes(message, <<"e", "c", "o", "n", "n", "r", "e", "f", "u", "s", "e", "d">>)
            THEN "external"
            ELSE "internal"

\* inferErrorType over the values this model throws, computed once
InferredErrorType == [e \in Thrown |-> InferErrorType(e)]

VARIABLES
    target,            \* "frontend" or "backend": the object this behaviour exercises
    disabled,          \* config.disabled
    sessionId,         \* MimosFrontendAnalytics.sessionId
    sessionStartTime,  \* MimosFrontendAnalytics.sessionStartTime
    screenHistory,     \* MimosFrontendAnalytics.screenHistory
    eventCount,        \* MimosFrontendAnalytics.eventCount
    sends,             \* bag of suspended tracker calls, each awaiting its sendMetric
    timers,            \* number of timers set by setTimeout and not yet cleared or fired
    wcalls,            \* bag of suspended wrapper calls, each awaiting its operation
    given,             \* history: the config object the constructor was called with
    timeout,           \* config.timeout
    baseUrl,           \* config.baseUrl, as a sequence of characters
    metricsUrl,        \* backendMetricsUrl / frontendMetricsUrl
    ncalls,            \* number of calls made by the application so far
    tracked,           \* history: screen names of the counting calls since the last startSession
    emitted,           \* history: session_end events endSession sent since the last startSession
    refSessionId,      \* history: the session id if every endSession had run to its end at once
    afterEnd,          \* history: counting calls made after an endSession call and since the last startSession
    ev                 \* history: the last request issued, return or throw

vars == <<target, given, timeout, disabled, baseUrl, metricsUrl, sessionId, sessionStartTime, screenHistory,
          eventCount, sends, timers, wcalls, ncalls, tracked, emitted, refSessionId, afterEnd, ev>>

config == <<target, given, timeout, disabled, baseUrl, metricsUrl>>
session == <<sessionId, sessionStartTime, screenHistory, eventCount>>
history == <<tracked, emitted, refSessionId, afterEnd>>

\* ------------------------------------------------------------- encoding
NumFields == {"session_duration_ms", "screens_visited", "total_events",
              "duration_ms", "response_size_bytes", "timestamp_ms", "load_time_ms"}

BoolFields == {"is_cold_start"}

IsUndefined(f, v) ==
    IF f \in NumFields THEN v = NoNum
    ELSE IF f \in BoolFields THEN FALSE
    ELSE v = UNDEF

\* JSON.stringify of a payload object: properties whose value is undefined are
\* left out, and the result is a string, not an object
JSONStringify(p) ==
    [json |-> [f \in {g \in DOMAIN p : ~IsUndefined(g, p[g])} |-> p[f]]]

NoReq == [endpoint |-> "none"]

FrontendSuffix == \* "/v1/frontend-metrics/write/"
    <<"/", "v", "1", "/", "f", "r", "o", "n", "t", "e", "n", "d", "-", "m", "e", "t", "r", "i", "c", "s", "/", "w", "r", "i", "t", "e", "/">>
BackendSuffix == \* "/v1/backend-metrics/write/"
    <<"/", "v", "1", "/", "b", "a", "c", "k", "e", "n", "d", "-", "m", "e", "t", "r", "i", "c", "s", "/", "w", "r", "i", "t", "e", "/">>

\* base URLs a tracker is constructed with: "h", "h/", "h//", "" and "/"
BaseUrls == {<<"h">>, <<"h", "/">>, <<"h", "/", "/">>, <<>>, <<"/">>}

\* a variant that keeps the base URL as it is
StripNothing(s) == s

\* baseUrl.replace(/\/$/, ""): one slash at the very end is removed
StripTrailingSlash(s) ==
    IF Len(s) > 0 /\ s[Len(s)] = "/" THEN SubSeq(s, 1, Len(s) - 1) ELSE s

\* the constructors: `${baseUrl}/v1/backend-metrics/write/` and its frontend twin
MetricsUrl(tgt, base) ==
    StripTrailingSlash(base) \o (IF tgt = "backend" THEN BackendSuffix ELSE FrontendSuffix)

\* a variant of the frontend request that carries the api-key header
FrontendRequestWithApiKey(eventType, payload) ==
    [endpoint |-> metricsUrl, method |-> "POST", api_key |-> TRUE,
     event_type |-> eventType, metric_value |-> JSONStringify(payload)]

\* the fetch() call of MimosFrontendAnalytics.sendMetric
FrontendRequest(eventType, payload) ==
    [endpoint |-> metricsUrl, method |-> "POST", api_key |-> FALSE,
     event_type |-> eventType, metric_value |-> JSONStringify(payload)]

\* the fetch() call of MimosAnalytics.sendMetric, with the request that
\* trackToolCall / trackToolError built
BackendRequest(eventType, payload) ==
    [endpoint |-> metricsUrl, method |-> "POST", api_key |-> TRUE,
     event_type |-> eventType, metric_value |-> JSONStringify(payload)]

NoOutcome == [kind |-> "none", val |-> UNDEF]
NoMeta == [durationMs |-> NoNum, callId |-> UNDEF]

\* what a wrapper call did: how often it invoked fn, how fn settled (op), what the
\* caller of the wrapper got (out, meta) and the report it dispatched
NoTrack == [m |-> "none", invoked |-> 0, op |-> NoOutcome, out |-> NoOutcome,
            meta |-> NoMeta, report |-> "none"]

NoTimer == -3             \* no setTimeout call

\* what a tracker call did: the request it issued and the delay it passed to
\* setTimeout (phase "call"), or how its
\* promise settled (phase "done" after a suspension, "return" without one)
NoEv == [op |-> "none", phase |-> "none", by |-> "none", sent |-> FALSE,
         timer |-> NoTimer, req |-> NoReq, ret |-> UNDEF, outcome |-> "none", log |-> "none",
         arg |-> UNDEF, w |-> NoTrack]

Absent == -4              \* a number-typed property the object does not have
DefaultTimeout == 5000

\* the optional properties of the config object passed to a constructor: each
\* is left out, or present with the value undefined, or present with a value
GivenTimeouts == {Absent, NoNum, 1000}
GivenDisabled == {"absent", UNDEF, "true", "false"}
Configs == [timeout : GivenTimeouts, disabled : GivenDisabled]

\* { timeout: 5000, disabled: false, ...config }: the spread copies every
\* property the object has, one whose value is undefined included
EffectiveConfig(c) ==
    [timeout |-> IF c.timeout = Absent THEN DefaultTimeout ELSE c.timeout,
     disabled |-> IF c.disabled = "absent" THEN "false" ELSE c.disabled]

\* the configs that set nothing but disabled
PlainConfigs == {c \in Configs : c.timeout = Absent /\ c.disabled \in {"absent", "true"}}

\* the state a constructor leaves, for a base URL out of bases and a config
\* object out of configs
Constructed(bases, configs) ==
    /\ target \in {"frontend", "backend"}
    /\ given \in configs
    /\ timeout = EffectiveConfig(given).timeout
    /\ disabled = (EffectiveConfig(given).disabled = "true")
    /\ baseUrl \in bases
    /\ metricsUrl = MetricsUrl(target, baseUrl)
    /\ sessionId = NULL
    /\ sessionStartTime = NoTime
    /\ screenHistory = <<>>
    /\ eventCount = 0
    /\ sends = EmptyBag
    /\ timers = 0
    /\ wcalls = EmptyBag
    /\ ncalls = 0
    /\ tracked = <<>>
    /\ emitted = 0
    /\ refSessionId = NULL
    /\ afterEnd = 0
    /\ ev = NoEv

Init == Constructed({<<"h", "/">>}, PlainConfigs)

\* the same with any of the base URLs
InitAnyUrl == Constructed(BaseUrls, PlainConfigs)

\* the same with any of the config objects
InitAnyConfig == Constructed({<<"h", "/">>}, Configs)

CanCallFrontend ==
    /\ target = "frontend"
    /\ ncalls < MaxCalls
    /\ BagCardinality(sends) < MaxInFlight

\* the backend tracker keeps no state between calls: its calls are not counted
CanCallBackend ==
    /\ target = "backend"
    /\ BagCardinality(sends) + BagCardinality(wcalls) < MaxInFlight

\* ------------------------------------------------------- frontend tracker
Last(h) == IF Len(h) = 0 THEN UNDEF ELSE h[Len(h)]

\* a variant that drops every screen name already in the history
UpdateScreenHistoryDedupAll(h, screenName) ==
    IF \E i \in 1..Len(h) : h[i] = screenName THEN h ELSE Append(h, screenName)

\* updateScreenHistory: push unless the last entry is this screen name
UpdateScreenHistory(h, screenName) ==
    IF Last(h) # screenName THEN Append(h, screenName) ELSE h

\* a variant without the disabled check
FrontendIssuesAlways(dis) == TRUE

\* sendMetric's first line: a disabled tracker returns before fetch()
FrontendIssues(dis) == ~dis

\* a frontend method reaching `await this.sendMetric(eventType, payload)`
SendMetricF(m, k, eventType, payload, ret, arg) ==
    LET issue == FrontendIssues(disabled) IN
    /\ sends' = sends (+) SetToBag({[k |-> k, by |-> "caller",
                                     pc |-> IF issue THEN "fetch" ELSE "skip",
                                     ret |-> ret]})
    /\ timers' = IF issue THEN timers + 1 ELSE timers
    /\ ncalls' = ncalls + 1
    /\ ev' = [NoEv EXCEPT !.op = m, !.phase = "call", !.by = "caller",
                          !.sent = issue, !.outcome = "pending", !.arg = arg,
                          !.timer = IF issue THEN timeout ELSE NoTimer,
                          !.req = IF issue THEN FrontendRequest(eventType, payload)
                                  ELSE NoReq]

\* payload.session_id || this.generateSessionId()
ResolveSessionId(supplied, generated) ==
    IF FalsyStr(supplied) THEN generated ELSE supplied

\* a variant that does not record the start time
startSessionNoClock(supplied, generated, t) ==
    LET id == ResolveSessionId(supplied, generated) IN
    /\ CanCallFrontend
    /\ sessionId' = id
    /\ screenHistory' = <<>>
    /\ eventCount' = 0
    /\ tracked' = <<>>
    /\ emitted' = 0
    /\ refSessionId' = id
    /\ afterEnd' = 0
    /\ SendMetricF("startSession", "start", "session_start",
                   [session_id |-> id], id, supplied)
    /\ UNCHANGED <<config, sessionStartTime, wcalls>>

\* a variant that keeps the counters of the session it replaces
startSessionKeepsCounts(supplied, generated, t) ==
    LET id == ResolveSessionId(supplied, generated) IN
    /\ CanCallFrontend
    /\ sessionId' = id
    /\ sessionStartTime' = t
    /\ IF sessionId = NULL
       THEN screenHistory' = <<>> /\ eventCount' = 0
       ELSE UNCHANGED <<screenHistory, eventCount>>
    /\ tracked' = <<>>
    /\ emitted' = 0
    /\ refSessionId' = id
    /\ afterEnd' = 0
    /\ SendMetricF("startSession", "start", "session_start",
                   [session_id |-> id], id, supplied)
    /\ UNCHANGED <<config, wcalls>>

startSession(supplied, generated, t) ==
    LET id == ResolveSessionId(supplied, generated) IN
    /\ CanCallFrontend
    /\ sessionId' = id
    /\ sessionStartTime' = t
    /\ screenHistory' = <<>>
    /\ eventCount' = 0
    /\ tracked' = <<>>
    /\ emitted' = 0
    /\ refSessionId' = id
    /\ afterEnd' = 0
    /\ SendMetricF("startSession", "start", "session_start",
                   [session_id |-> id], id, supplied)
    /\ UNCHANGED <<config, wcalls>>

\* a variant that reports the length of the history as the event count
SessionEndPayloadCountsScreens(exitReason, t) ==
    [session_id |-> sessionId,
     session_duration_ms |-> t - sessionStartTime,
     exit_reason |-> exitReason,
     screens_visited |-> Len(screenHistory),
     total_events |-> Len(screenHistory),
     last_screen |-> Last(screenHistory)]

\* the session_end payload endSession builds from the accumulated state
SessionEndPayload(exitReason, t) ==
    [session_id |-> sessionId,
     session_duration_ms |-> t - sessionStartTime,
     exit_reason |-> exitReason,
     screens_visited |-> Len(screenHistory),
     total_events |-> eventCount,
     last_screen |-> Last(screenHistory)]

\* a variant without the guard
NoActiveSessionNever(id, start) == FALSE

\* if (!this.sessionId || !this.sessionStartTime)
NoActiveSession(id, start) == FalsyStr(id) \/ FalsyNum(start)

endSession(exitReason, t) ==
    /\ CanCallFrontend
    /\ t >= sessionStartTime
    /\ IF NoActiveSession(sessionId, sessionStartTime)
       THEN \* console.warn, return: no suspension, nothing sent
            /\ ev' = [NoEv EXCEPT !.op = "endSession", !.phase = "return",
                                  !.by = "caller", !.outcome = "resolved",
                                  !.log = "warn", !.arg = exitReason]
            /\ ncalls' = ncalls + 1
            /\ UNCHANGED <<sends, timers>>
            /\ UNCHANGED emitted
       ELSE /\ SendMetricF("endSession", "end", "session_end",
                           SessionEndPayload(exitReason, t), UNDEF, exitReason)
            /\ emitted' = IF FrontendIssues(disabled) THEN emitted + 1 ELSE emitted
    /\ refSessionId' = NULL
    /\ UNCHANGED <<config, session, tracked, afterEnd, wcalls>>

\* getSessionId(): a pure accessor
getSessionId == sessionId

\* the statements shared by the nine counting methods:
\* this.eventCount++; this.updateScreenHistory(screen_name); await this.sendMetric(...)
Tracking(m, eventType, screenName, payload) ==
    /\ CanCallFrontend
    /\ eventCount' = eventCount + 1
    /\ screenHistory' = UpdateScreenHistory(screenHistory, screenName)
    /\ tracked' = Append(tracked, screenName)
    /\ afterEnd' = IF refSessionId = NULL THEN afterEnd + 1 ELSE afterEnd
    /\ UNCHANGED <<emitted, refSessionId>>
    /\ SendMetricF(m, "plain", eventType, payload, UNDEF, screenName)
    /\ UNCHANGED <<config, sessionId, sessionStartTime, wcalls>>

trackButtonClick(screenName, t) ==
    Tracking("trackButtonClick", "button_click", screenName,
             [button_id |-> "btn", screen_name |-> screenName, button_text |-> UNDEF,
              timestamp_ms |-> t])

trackSwipe(screenName) ==
    Tracking("trackSwipe", "motion_swipe", screenName, [screen_name |-> screenName])

trackScroll(screenName) ==
    Tracking("trackScroll", "motion_scroll", screenName, [screen_name |-> screenName])

trackElementFocus(screenName) ==
    Tracking("trackElementFocus", "element_focus", screenName,
             [screen_name |-> screenName])

trackLoadSuccess(screenName) ==
    Tracking("trackLoadSuccess", "app_load_success", screenName,
             [screen_name |-> screenName, load_time_ms |-> 1, is_cold_start |-> FALSE,
              network_type |-> UNDEF])

\* the message / code / stack extraction of trackLoadError
LoadErrorPayload(screenName, error, errorType, errorCode) ==
    [screen_name |-> screenName,
     error_code |-> IF ~FalsyStr(errorCode) THEN errorCode
                    ELSE IF IsError(error) THEN ErrName(error) ELSE "Error",
     error_message |-> ErrMessage(error),
     error_type |-> IF ~FalsyStr(errorType) THEN errorType ELSE "unknown",
     stack_trace |-> ErrStack(error)]

trackLoadError(screenName, error, errorType, errorCode) ==
    Tracking("trackLoadError", "app_load_error", screenName,
             LoadErrorPayload(screenName, error, errorType, errorCode))

sendButtonClick(screenName) ==
    Tracking("sendButtonClick", "button_click", screenName, [screen_name |-> screenName])

sendAppLoadSuccess(screenName) ==
    Tracking("sendAppLoadSuccess", "app_load_success", screenName,
             [screen_name |-> screenName])

sendAppLoadError(screenName) ==
    Tracking("sendAppLoadError", "app_load_error", screenName,
             [screen_name |-> screenName])

\* a variant whose raw session sends count as events
RawSessionCounts(m, eventType, id) ==
    /\ CanCallFrontend
    /\ eventCount' = eventCount + 1
    /\ SendMetricF(m, "plain", eventType, [session_id |-> id], UNDEF, id)
    /\ UNCHANGED <<config, sessionId, sessionStartTime, screenHistory, history, wcalls>>

\* the two raw session sends only forward the caller's payload
RawSession(m, eventType, id) ==
    /\ CanCallFrontend
    /\ SendMetricF(m, "plain", eventType, [session_id |-> id], UNDEF, id)
    /\ UNCHANGED <<config, session, history, wcalls>>

sendSessionStart(id) == RawSession("sendSessionStart", "session_start", id)
sendSessionEnd(id) == RawSession("sendSessionEnd", "session_end", id)

\* -------------------------------------------------------- backend tracker
\* trackToolCall / trackToolError: if (this.config.disabled) return;
BackendIssues(dis) == ~dis

\* trackToolCall / trackToolError reaching `await this.sendMetric(request)`;
\* `by` tells who holds the promise: the application, or the wrapper's .catch()
SendMetricB(m, by, eventType, payload, arg, w) ==
    LET issue == BackendIssues(disabled) IN
    /\ sends' = sends (+) SetToBag({[k |-> "plain", by |-> by,
                                     pc |-> IF issue THEN "fetch" ELSE "skip",
                                     ret |-> UNDEF]})
    /\ timers' = IF issue THEN timers + 1 ELSE timers
    /\ ev' = [NoEv EXCEPT !.op = m, !.phase = "call", !.by = by,
                          !.sent = issue, !.outcome = "pending", !.arg = arg,
                          !.w = w,
                          !.timer = IF issue THEN timeout ELSE NoTimer,
                          !.req = IF issue THEN BackendRequest(eventType, payload)
                                  ELSE NoReq]

\* the payload trackSuccess builds
ToolCallPayload(durationMs, t, callId, parameters, responseSizeBytes) ==
    [tool_name |-> "tool", duration_ms |-> durationMs, status |-> "success",
     timestamp_ms |-> t, call_id |-> callId, parameters |-> parameters,
     response_size_bytes |-> responseSizeBytes]

\* the payload trackError builds
ToolErrorPayload(error, t, callId, parameters, errorType, errorCode) ==
    [tool_name |-> "tool",
     error_code |-> IF ~FalsyStr(errorCode) THEN errorCode
                    ELSE IF IsError(error) THEN ErrCtor(error) ELSE "Error",
     error_message |-> ErrMessage(error),
     error_type |-> IF ~FalsyStr(errorType) THEN errorType ELSE "unknown",
     timestamp_ms |-> t, call_id |-> callId, parameters |-> parameters,
     stack_trace |-> ErrStack(error)]

BackendCall(m, eventType, payload, arg) ==
    /\ CanCallBackend
    /\ SendMetricB(m, "caller", eventType, payload, arg, NoTrack)
    /\ UNCHANGED <<config, session, ncalls, history, wcalls>>

trackToolCall(callId, t) ==
    BackendCall("trackToolCall", "tool_call",
                ToolCallPayload(1, t, callId, UNDEF, NoNum), callId)

trackToolError(callId, t) ==
    BackendCall("trackToolError", "tool_error",
                ToolErrorPayload("E_type", t, callId, UNDEF, "internal", "E42"), callId)

trackSuccess(callId, t) ==
    BackendCall("trackSuccess", "tool_call",
                ToolCallPayload(1, t, callId, UNDEF, NoNum), callId)

trackError(error, errorType, errorCode, t) ==
    BackendCall("trackError", "tool_error",
                ToolErrorPayload(error, t, UNDEF, UNDEF, errorType, errorCode), error)

\* ------------------------------------------------- call-tracking wrapper
ErrorTypeOptions == {UNDEF, "validation"}   \* options.errorType
\* the options track / trackWithMetadata are called with
TrackOptions ==
    {[callId |-> UNDEF, parameters |-> UNDEF, errorType |-> UNDEF],
     [callId |-> "c1", parameters |-> "obj", errorType |-> UNDEF],
     [callId |-> "", parameters |-> "0", errorType |-> "validation"],
     [callId |-> UNDEF, parameters |-> "circular", errorType |-> UNDEF]}
Results == {UNDEF, "obj", "circular"}   \* values the tracked operation returns
Failures == Thrown   \* values the tracked operation throws
\* the arguments a wrapped function is called with
ArgLists == {<<>>, <<"0">>, <<"obj">>, <<"circular">>, <<"0", "obj">>}

\* options?.callId || generateCallId()
ResolveCallId(supplied, generated) ==
    IF FalsyStr(supplied) THEN generated ELSE supplied

\* options?.parameters ? JSON.stringify(options.parameters) : undefined
ParametersStr(parameters) ==
    IF TruthyValue(parameters) THEN JSONText(parameters) ELSE UNDEF

\* wrap: parameters is args[0] for one argument and the array args otherwise;
\* an array is truthy even when empty
WrapParametersStr(args) ==
    IF Len(args) = 1 THEN ParametersStr(args[1]) ELSE JSONArray(args)

\* a variant that reports a size of 0 for a result it cannot serialize
ResponseSizeZero(result) ==
    IF JSONText(result) \in {UNDEF, THROWS} THEN 0 ELSE Len(JSONText(result))

\* try { responseSizeBytes = JSON.stringify(result).length } catch {}
ResponseSize(result) ==
    IF JSONText(result) \in {UNDEF, THROWS} THEN NoNum ELSE Len(JSONText(result))

\* track / trackWithMetadata up to `await fn()`. JSON.stringify of the parameters
\* runs before the try block: when it throws, the call rejects with that
\* TypeError and fn is never invoked
TrackStart(m, callId, parametersStr, errorType, t) ==
    /\ CanCallBackend
    /\ BagCardinality(wcalls) < MaxOperating
    /\ IF parametersStr = THROWS
       THEN /\ ev' = [NoEv EXCEPT
                       !.op = m, !.phase = "threw", !.by = "caller",
                       !.w = [NoTrack EXCEPT
                                !.m = m,
                                !.out = [kind |-> "error", val |-> "TypeError"]]]
            /\ UNCHANGED wcalls
       ELSE /\ wcalls' = wcalls (+) SetToBag({[m |-> m, callId |-> callId,
                                               parametersStr |-> parametersStr,
                                               startTime |-> t,
                                               errorType |-> errorType,
                                               pc |-> "fn"]})
            /\ ev' = [NoEv EXCEPT !.op = m, !.phase = "invoked", !.by = "caller"]
    /\ UNCHANGED <<config, session, ncalls, history, sends, timers>>

track(options, generated, t) ==
    TrackStart("track", ResolveCallId(options.callId, generated),
               ParametersStr(options.parameters), options.errorType, t)

trackWithMetadata(options, generated, t) ==
    TrackStart("trackWithMetadata", ResolveCallId(options.callId, generated),
               ParametersStr(options.parameters), options.errorType, t)

\* the function wrap returns, called with args
wrapped(args, generated, errorType, t) ==
    TrackStart("wrap", ResolveCallId(UNDEF, generated),
               WrapParametersStr(args), errorType, t)

\* a variant that awaits the report before returning
AfterDispatchAwaits(w) == "report"

\* where the wrapper call stands once it has dispatched its report: the report
\* promise gets .catch(() => {}) and is not awaited, so the call returns
AfterDispatch(w) == "returned"

\* a variant that hands back the result only when it could be serialized
TrackReturnsSerializable(w, result, durationMs) ==
    [out |-> [kind |-> "value",
              val |-> IF JSONText(result) = THROWS THEN UNDEF ELSE result],
     meta |-> IF w.m = "trackWithMetadata"
              THEN [durationMs |-> durationMs, callId |-> w.callId]
              ELSE NoMeta]

\* return result;  /  return { result, durationMs, callId };
TrackReturns(w, result, durationMs) ==
    [out |-> [kind |-> "value", val |-> result],
     meta |-> IF w.m = "trackWithMetadata"
              THEN [durationMs |-> durationMs, callId |-> w.callId]
              ELSE NoMeta]

\* a variant that swallows the failure after reporting it
TrackSwallows(w, error) ==
    [out |-> [kind |-> "value", val |-> UNDEF], meta |-> NoMeta]

\* throw error;
TrackRethrows(w, error) ==
    [out |-> [kind |-> "error", val |-> error], meta |-> NoMeta]

\* the wrapper call resumes from `await fn()`, dispatches its report (the tracker
\* method runs up to its own first await) and, not awaiting it, returns or throws
Settle(w, op, trackerMethod, eventType, payload, res) ==
    LET after == AfterDispatch(w) IN
    /\ w.pc = "fn"
    /\ wcalls' = IF after = "returned" THEN wcalls (-) SetToBag({w})
                 ELSE (wcalls (-) SetToBag({w})) (+) SetToBag({[w EXCEPT !.pc = after]})
    /\ SendMetricB(trackerMethod, "wrapper", eventType, payload, w.callId,
                   IF after = "returned"
                   THEN [m |-> w.m, invoked |-> 1, op |-> op, out |-> res.out,
                         meta |-> res.meta, report |-> eventType]
                   ELSE NoTrack)
    /\ UNCHANGED <<config, session, ncalls, history>>

\* fn() resolved with result at time t
OperationResolves(w, result, t) ==
    LET durationMs == t - w.startTime IN
    /\ t >= w.startTime
    /\ Settle(w, [kind |-> "value", val |-> result], "trackSuccess", "tool_call",
              ToolCallPayload(durationMs, t, w.callId, w.parametersStr,
                              ResponseSize(result)),
              TrackReturns(w, result, durationMs))

\* a variant that ignores the caller's error type
ReportedErrorTypeInferred(errorType, error) == InferredErrorType[error]

\* options?.errorType || this.inferErrorType(error)
ReportedErrorType(errorType, error) ==
    IF ~FalsyStr(errorType) THEN errorType ELSE InferredErrorType[error]

\* fn() rejected with error at time t
OperationRejects(w, error, t) ==
    /\ t >= w.startTime
    /\ Settle(w, [kind |-> "error", val |-> error], "trackError", "tool_error",
              ToolErrorPayload(error, t, w.callId, w.parametersStr,
                               ReportedErrorType(w.errorType, error), UNDEF),
              TrackRethrows(w, error))

\* ------------------------------------------------- delivery (sendMetric)
\* How one sendMetric ends, by what the transport did:
\*   "skip"     the tracker is disabled, nothing was sent
\*   "ok"       fetch resolved with response.ok
\*   "status"   fetch resolved with a non-ok status and response.text() resolved
\*   "textfail" fetch resolved with a non-ok status and response.text() rejected
\*   "neterror" fetch rejected with a network error
\*   "abort"    the timer fired, controller.abort() rejected the pending fetch/text
DeliveryResults == {"skip", "ok", "status", "textfail", "neterror", "abort"}

\* a variant whose catch block rethrows the AbortError
SendMetricRethrowsAbort(result) ==
    [outcome |-> IF result = "abort" THEN "rejected" ELSE "resolved",
     log |-> CASE result \in {"skip", "ok"} -> "none"
               [] result = "status" -> "error: status"
               [] result = "abort" -> "error: timed out"
               [] OTHER -> "error: failed"]

\* a variant whose response.text() sits outside the try block
SendMetricTextOutsideTry(result) ==
    [outcome |-> IF result = "textfail" THEN "rejected" ELSE "resolved",
     log |-> CASE result \in {"skip", "ok"} -> "none"
               [] result = "status" -> "error: status"
               [] result = "abort" -> "error: timed out"
               [] result = "textfail" -> "none"
               [] OTHER -> "error: failed"]

\* try / catch / finally of sendMetric: every result is logged at most, none is rethrown
SendMetricSettles(result) ==
    [outcome |-> "resolved",
     log |-> CASE result \in {"skip", "ok"} -> "none"
               [] result = "status" -> "error: status"
               [] result = "abort" -> "error: timed out"
               [] OTHER -> "error: failed"]

\* a suspended tracker call resumes after its sendMetric settled and runs to its
\* end; unless it had returned before setTimeout, sendMetric's finally block
\* clears its timer
Complete(s, result) ==
    LET r == SendMetricSettles(result) IN
    /\ sends' = sends (-) SetToBag({s})
    /\ timers' = IF result = "skip" THEN timers ELSE timers - 1
    /\ ev' = [NoEv EXCEPT !.op = s.k, !.phase = "done", !.by = s.by,
                          !.outcome = r.outcome, !.log = r.log,
                          !.ret = IF r.outcome = "resolved" THEN s.ret ELSE UNDEF]
    /\ IF s.k = "end" /\ r.outcome = "resolved"
       THEN \* endSession, after the await: the session is cleared
            /\ sessionId' = NULL
            /\ sessionStartTime' = NoTime
       ELSE UNCHANGED <<sessionId, sessionStartTime>>
    /\ UNCHANGED <<config, screenHistory, eventCount, ncalls, history, wcalls>>

Suspended == BagToSet(sends)
Operating == BagToSet(wcalls)

SkipReturns(s) == s.pc = "skip" /\ Complete(s, "skip")
FetchOk(s) == s.pc = "fetch" /\ Complete(s, "ok")
FetchRejects(s) == s.pc = "fetch" /\ Complete(s, "neterror")
TextResolves(s) == s.pc = "text" /\ Complete(s, "status")
TextRejects(s) == s.pc = "text" /\ Complete(s, "textfail")
\* a variant whose timer is cleared as soon as fetch resolves
TimerFiresFetchOnly(s) == s.pc = "fetch" /\ Complete(s, "abort")

\* a variant with one AbortController shared by all sends: the abort rejects
\* every pending request, and the calls awaiting them are resumed with s
TimerFiresShared(s) ==
    LET pending == {x \in Suspended : x.pc \in {"fetch", "text"}}
        r == SendMetricSettles("abort") IN
    /\ s \in pending
    /\ sends' = [x \in Suspended \ pending |-> sends[x]]
    /\ timers' = 0
    /\ ev' = [NoEv EXCEPT !.op = s.k, !.phase = "done", !.by = s.by,
                          !.outcome = r.outcome, !.log = r.log, !.ret = s.ret]
    /\ IF \E x \in pending : x.k = "end"
       THEN sessionId' = NULL /\ sessionStartTime' = NoTime
       ELSE UNCHANGED <<sessionId, sessionStartTime>>
    /\ UNCHANGED <<config, screenHistory, eventCount, ncalls, history, wcalls>>

\* setTimeout(() => controller.abort(), timeout): armed until the finally block,
\* it rejects the pending fetch or body read with an AbortError
TimerFires(s) == s.pc \in {"fetch", "text"} /\ Complete(s, "abort")

\* fetch resolved with !response.ok: the call suspends again on response.text()
FetchNotOk(s) ==
    /\ s.pc = "fetch"
    /\ sends' = (sends (-) SetToBag({s})) (+) SetToBag({[s EXCEPT !.pc = "text"]})
    /\ UNCHANGED <<config, session, ncalls, history, ev, wcalls, timers>>

\* the calls the application makes
Calls ==
    \/ \E s \in SuppliedIds, g \in GenIds, t \in CallTimes : startSession(s, g, t)
    \/ \E r \in ExitReasons, t \in Times : endSession(r, t)
    \/ \E s \in Screens, t \in CallTimes : trackButtonClick(s, t)
    \/ \E s \in Screens : trackSwipe(s)
    \/ \E s \in Screens : trackScroll(s)
    \/ \E s \in Screens : trackElementFocus(s)
    \/ \E s \in Screens : trackLoadSuccess(s)
    \/ \E s \in Screens, e \in {"E_type", "S_oops"} : trackLoadError(s, e, UNDEF, UNDEF)
    \/ \E s \in Screens : sendButtonClick(s)
    \/ \E s \in Screens : sendAppLoadSuccess(s)
    \/ \E s \in Screens : sendAppLoadError(s)
    \/ \E i \in {"s1"} : sendSessionStart(i)
    \/ \E i \in {"s1"} : sendSessionEnd(i)
    \/ \E c \in {UNDEF, "c1"}, t \in CallTimes : trackToolCall(c, t)
    \/ \E c \in {"c1"}, t \in CallTimes : trackToolError(c, t)
    \/ \E c \in {UNDEF, "c1"}, t \in CallTimes : trackSuccess(c, t)
    \/ \E e \in {"E_type", "S_oops"}, et \in ErrorTypeOptions, ec \in {UNDEF, "E42"},
          t \in CallTimes : trackError(e, et, ec, t)
    \/ \E o \in TrackOptions, g \in GenIds, t \in CallTimes : track(o, g, t)
    \/ \E o \in TrackOptions, g \in GenIds, t \in CallTimes : trackWithMetadata(o, g, t)
    \/ \E a \in ArgLists, g \in GenIds, et \in ErrorTypeOptions, t \in CallTimes :
          wrapped(a, g, et, t)

\* what the tracked operations do
Operations ==
    \/ \E w \in Operating, v \in Results, t \in Times : OperationResolves(w, v, t)
    \/ \E w \in Operating, e \in Failures, t \in Times : OperationRejects(w, e, t)

\* what the transport does
Delivery ==
    \/ \E s \in Suspended : SkipReturns(s)
    \/ \E s \in Suspended : FetchOk(s)
    \/ \E s \in Suspended : FetchNotOk(s)
    \/ \E s \in Suspended : FetchRejects(s)
    \/ \E s \in Suspended : TextResolves(s)
    \/ \E s \in Suspended : TextRejects(s)
    \/ \E s \in Suspended : TimerFires(s)

Progress == Operations \/ Delivery

Next == Calls \/ Progress

Spec == Init /\ [][Next]_vars

\* The application awaiting each of its calls: it makes no call while a call of
\* its own is suspended, on a send or on a tracked operation. Reports the wrapper
\* dispatched and did not await may still be pending.
Idle == wcalls = EmptyBag /\ \A s \in Suspended : s.by # "caller"

AwaitedNext == (Idle /\ Calls) \/ Progress

\* the scheduling the code relies on: the timer of the pending send fires unless
\* the send ends before, and a call that skipped its send is resumed
Fairness ==
    WF_vars(\E s \in Suspended : s.by = "caller" /\ (TimerFires(s) \/ SkipReturns(s)))

AwaitedSpec == Init /\ [][AwaitedNext]_vars /\ Fairness

AnyUrlSpec == InitAnyUrl /\ [][AwaitedNext]_vars

\* the errors, error types and error codes the two error-reporting methods are
\* called with; an error code may be the empty string
ReportedErrors == {"E_named", "E_validation", "E_type", "S_oops"}
ErrorCodeOptions == {UNDEF, "", "E42"}

\* the application reporting errors, awaiting each report
ErrorCalls ==
    \/ \E e \in ReportedErrors, et \in ErrorTypeOptions, ec \in ErrorCodeOptions,
          t \in Times : trackError(e, et, ec, t)
    \/ \E s \in Screens, e \in ReportedErrors, et \in ErrorTypeOptions,
          ec \in ErrorCodeOptions : trackLoadError(s, e, et, ec)

ErrorNext == (Idle /\ ErrorCalls) \/ Delivery

ErrorSpec == Init /\ [][ErrorNext]_vars

ConfigSpec == InitAnyConfig /\ [][AwaitedNext]_vars

\* ================================================================ claims

\* C1: a tracker constructed with disabled = true never issues a network
\* request: no call of either tracker or of the wrapper reports a request as
\* sent, and no suspended call has a request in flight.
C1_DisabledSendsNothing ==
    disabled => (~ev.sent /\ \A s \in Suspended : s.pc = "skip")

\* a disabled frontend tracker ending an active session: the payload is built,
\* nothing is sent
C1_Witness ==
    /\ disabled
    /\ ev.op = "endSession"
    /\ ev.phase = "call"
    /\ \E s \in Suspended : s.k = "end"

\* C2: a delivery failure is never raised: however the transport ends a send
\* (network error, non-ok status, failing response.text(), abort by the timer),
\* the promise of the tracking method that awaited it resolves.
C2_DeliveryFailureNotRaised ==
    ev.phase \in {"done", "return"} => ev.outcome = "resolved"

\* a call of the application resumed after a failed delivery
C2_Witness ==
    /\ ev.phase = "done"
    /\ ev.by = "caller"
    /\ ev.log = "error: failed"

\* C3: when the operation given to track (directly or through wrap) resolves
\* with v, the caller gets exactly v; the value is handed back in the step
\* that dispatches the report, so no delivery outcome can change it.
C3_TrackReturnsResult ==
    (ev.w.m \in {"track", "wrap"} /\ ev.w.op.kind = "value")
        => ev.w.out = [kind |-> "value", val |-> ev.w.op.val]

\* track returned a value that cannot be serialized while its report is in flight
C3_Witness ==
    /\ ev.w.m = "track"
    /\ ev.w.op = [kind |-> "value", val |-> "circular"]
    /\ ev.sent
    /\ \E s \in Suspended : s.by = "wrapper" /\ s.pc = "fetch"

\* C4: when the operation fails with e, the wrapper has called trackError (a
\* tool_error report, sent when the tracker is enabled) and rejects to its
\* caller with that same e.
C4_FailureReportedAndRethrown ==
    ev.w.op.kind = "error"
        => /\ ev.w.out = [kind |-> "error", val |-> ev.w.op.val]
           /\ ev.w.report = "tool_error"
           /\ ev.op = "trackError" /\ ev.by = "wrapper" /\ ev.phase = "call"
           /\ ev.sent = ~disabled
           /\ ev.sent => ev.req.event_type = "tool_error"

\* trackWithMetadata rethrew a thrown string after sending the error report
C4_Witness ==
    /\ ev.w.m = "trackWithMetadata"
    /\ ev.w.op = [kind |-> "error", val |-> "S_oops"]
    /\ ev.sent
    /\ ev.req.event_type = "tool_error"

\* C5: for every call of track, trackWithMetadata or a wrapped function and
\* every value of the options, the operation is invoked exactly once and the
\* caller observes exactly the operation's own outcome.
C5_OnlyOperationOutcomeObserved ==
    ev.w.m # "none" => (ev.w.invoked = 1 /\ ev.w.out = ev.w.op)

\* C6: the report is fire-and-forget: a wrapper call is suspended only on its
\* operation, never on its report, and in the very step that dispatches the
\* report it hands the operation's outcome to its caller, the report's send
\* still pending.
C6_ReportNotAwaited ==
    /\ [](\A w \in DOMAIN wcalls : w.pc = "fn")
    /\ [][(wcalls' # wcalls /\ ev'.by = "wrapper")
             => /\ ev'.phase = "call"
                /\ ev'.w.out.kind \in {"value", "error"}
                /\ BagCardinality(sends') = BagCardinality(sends) + 1
                /\ \E s \in DOMAIN sends' : s.by = "wrapper" /\ s.pc \in {"fetch", "skip"}]_vars

\* the caller of a wrapped function has its result while the report's request
\* is in flight
C6_Witness ==
    /\ ev.w.m = "wrap"
    /\ ev.w.out.kind = "value"
    /\ ev.sent
    /\ \E s \in Suspended : s.by = "wrapper" /\ s.pc = "fetch"
    /\ Operating = {}

\* the number of indices i of seq with i = 1 or seq[i] # seq[i-1]
Transitions(seq) ==
    Cardinality({i \in 1..Len(seq) : i = 1 \/ seq[i] # seq[i - 1]})

\* C7: the session_end payload endSession emits has total_events = the number
\* k of counting calls made since the last startSession and screens_visited =
\* the number of indices i with i = 1 or s_i # s_(i-1) among their screen names;
\* startSession, endSession and the raw session sends are not counted, nor are
\* calls made before the startSession.
C7_SessionEndCounts ==
    (ev.op = "endSession" /\ ev.phase = "call" /\ ev.sent)
        => LET p == ev.req.metric_value.json IN
           /\ ev.req.event_type = "session_end"
           /\ p.total_events = Len(tracked)
           /\ p.screens_visited = Transitions(tracked)

\* a session with two counting calls on the same screen is ended
C7_Witness ==
    /\ ev.op = "endSession"
    /\ ev.phase = "call"
    /\ ev.sent
    /\ tracked = <<"A", "A">>
    /\ ev.req.metric_value.json.screens_visited = 1

NoAdjacentRepeat ==
    \A i \in 1..(Len(screenHistory) - 1) : screenHistory[i] # screenHistory[i + 1]

\* a counting call with screen name Last(tracked') appends it iff the history is
\* empty or ends with another name
ScreenRule ==
    (Len(tracked') = Len(tracked) + 1)
        => LET s == tracked'[Len(tracked')] IN
           screenHistory' =
               IF Len(screenHistory) = 0 \/ screenHistory[Len(screenHistory)] # s
               THEN screenHistory \o <<s>>
               ELSE screenHistory

\* C8: screen_history never holds two equal adjacent entries, and a counting
\* call with screen name s appends s iff s differs from the last entry or the
\* history is empty (so a non-adjacent repeat is appended again).
C8_ScreenHistoryRule == []NoAdjacentRepeat /\ [][ScreenRule]_vars

\* A, B, A was tracked and is kept whole
C8_Witness ==
    /\ tracked = <<"A", "B", "A">>
    /\ screenHistory = <<"A", "B", "A">>

\* an endSession call made in this step
EndSessionCalled ==
    /\ ncalls' = ncalls + 1
    /\ ev'.op = "endSession"
    /\ ev'.phase \in {"call", "return"}

\* C9: endSession called with no active session issues no request, resolves,
\* emits nothing and leaves session_id, start_time, screen_history and
\* event_count unchanged.
C9_EndSessionWithoutSession ==
    [][(EndSessionCalled /\ (sessionId = NULL \/ sessionStartTime = NoTime))
          => /\ ev'.phase = "return"
             /\ ev'.outcome = "resolved"
             /\ ~ev'.sent
             /\ UNCHANGED <<session, sends>>]_vars

\* endSession returned at once although events had been tracked
C9_Witness ==
    /\ ev.op = "endSession"
    /\ ev.phase = "return"
    /\ sessionId = NULL
    /\ eventCount > 0

\* the state right after a startSession call that resolved its id to id
StartSessionDid(id) ==
    /\ sessionId = id
    /\ getSessionId = id
    /\ screenHistory = <<>>
    /\ eventCount = 0
    /\ ev.sent = ~disabled
    /\ ev.sent => /\ ev.req.event_type = "session_start"
                  /\ ev.req.metric_value.json.session_id = id
    /\ \E s \in Suspended : s.k = "start" /\ s.ret = id

\* the id is the caller's session_id whenever one is given, generated otherwise
StartSessionResolves ==
    (ev.op = "startSession" /\ ev.phase = "call")
        => IF ev.arg # UNDEF THEN StartSessionDid(ev.arg)
           ELSE \E g \in GenIds : StartSessionDid(g)

\* a startSession call issues one send; a startSession that resumes returns the
\* id its call resolved, and getSessionId() then equals the id it returns
StartSessionReturns ==
    /\ (ncalls' = ncalls + 1 /\ ev'.op = "startSession")
          => BagCardinality(sends') = BagCardinality(sends) + 1
    /\ (ev'.phase = "done" /\ ev'.op = "start"
        /\ BagCardinality(sends') = BagCardinality(sends) - 1)
          => /\ ev'.outcome = "resolved"
             /\ \E s \in Suspended : s.k = "start" /\ s.ret = ev'.ret
             /\ getSessionId' = ev'.ret

\* C10: startSession resolves the session id to the caller-supplied session_id
\* if one is given and otherwise to a generated id, makes it the active
\* session, empties screen_history, zeroes event_count, emits one session_start
\* carrying that id and returns that id; right after an awaited startSession
\* getSessionId() equals the returned id.
C10_StartSession == []StartSessionResolves /\ [][StartSessionReturns]_vars

\* the session_end request of the endSession call just made describes the session
\* as it stands: endSession writes no field before its send
SessionEndDescribesSession ==
    (ev.op = "endSession" /\ ev.phase = "call")
        => /\ ev.sent = ~disabled
           /\ \E s \in Suspended : s.k = "end"
           /\ ev.sent =>
                LET p == ev.req.metric_value.json IN
                /\ ev.req.event_type = "session_end"
                /\ p.session_id = sessionId /\ sessionId \notin {NULL, UNDEF}
                /\ p.exit_reason = ev.arg
                /\ p.screens_visited = Len(screenHistory)
                /\ p.total_events = eventCount
                /\ IF screenHistory = <<>>
                   THEN "last_screen" \notin DOMAIN p
                   ELSE p.last_screen = screenHistory[Len(screenHistory)]

\* an endSession call on an active session issues one send; when it resumes,
\* however its delivery ended, it resolves with the session cleared
SessionEndClears ==
    /\ (ncalls' = ncalls + 1 /\ ev'.op = "endSession" /\ ev'.phase = "call")
          => BagCardinality(sends') = BagCardinality(sends) + 1
    /\ (ev'.phase = "done" /\ ev'.op = "end"
        /\ BagCardinality(sends') = BagCardinality(sends) - 1)
          => /\ ev'.outcome = "resolved"
             /\ sessionId' = NULL
             /\ sessionStartTime' = NoTime
             /\ getSessionId' = NULL

\* C11: endSession(reason) on an active session emits one session_end whose
\* payload has session_id = the active id, exit_reason = reason, screens_visited
\* = the length of screen_history, total_events = event_count and last_screen =
\* the last entry of screen_history (absent when the history is empty); when the
\* call returns, session id and start time are cleared and getSessionId() is
\* null, whether the delivery succeeded, failed or timed out.
C11_EndSession == []SessionEndDescribesSession /\ [][SessionEndClears]_vars

\* an endSession whose delivery timed out returned with the session cleared
C11_Witness ==
    /\ ev.op = "end"
    /\ ev.phase = "done"
    /\ ev.log = "error: timed out"
    /\ sessionId = NULL
    /\ sessionStartTime = NoTime
    /\ eventCount > 0

\* the class each failure value of the model belongs to, by the terms in its
\* name and message and the order timeout, validation, rate_limit, external:
\*   E_named       name "TimeoutError", message "slow"            timeout
\*   E_timed       message "Request Timed Out"                    timeout
\*   E_both        message "Invalid Timeout" (two classes)        timeout
\*   E_validation  name "ValidationError", message "boom"         validation
\*   E_rate        message "429 Fetch" (two classes)              rate_limit
\*   E_net         message "Fetch failed: ECONNREFUSED"           external
\*   E_type        name "TypeError", message "boom"               internal
\*   S_oops        the string "oops", not an Error                unknown
ExpectedClass(e) ==
    CASE e \in {"E_named", "E_timed", "E_both"} -> "timeout"
      [] e = "E_validation" -> "validation"
      [] e = "E_rate" -> "rate_limit"
      [] e = "E_net" -> "external"
      [] e = "E_type" -> "internal"
      [] e = "S_oops" -> "unknown"

\* C12: error classification is a case-insensitive, ordered first-match function
\* of the error's name and message (timeout, else validation, else rate_limit,
\* else external, else internal; unknown for a value that is not an Error): a
\* wrapper call given no errorType reports each failure with its class, and a
\* failure matching two classes with the earlier one.
C12_ErrorClassification ==
    [][\A w \in DOMAIN wcalls :
          (/\ wcalls' = wcalls (-) SetToBag({w})
           /\ ev'.op = "trackError" /\ ev'.by = "wrapper" /\ ev'.sent
           /\ w.errorType = UNDEF)
             => /\ ev'.req.metric_value.json.error_type = ExpectedClass(ev'.w.op.val)
                /\ InferErrorType(ev'.w.op.val) = ExpectedClass(ev'.w.op.val)]_vars

\* a failure whose mixed-case message matches timeout and validation terms was
\* reported as timeout
C12_Witness ==
    /\ ev.op = "trackError"
    /\ ev.by = "wrapper"
    /\ ev.sent
    /\ ev.w.op = [kind |-> "error", val |-> "E_both"]
    /\ ev.req.metric_value.json.error_type = "timeout"

\* what the claim has a wrapped function record for the arguments args: the
\* JSON encoding of the argument itself for one argument, of the list otherwise
ClaimedParameters(args) ==
    IF Len(args) = 1 THEN JSONText(args[1]) ELSE JSONArray(args)

\* a call of a wrapped function keeps the claimed parameters for its report
WrapKeepsParameters ==
    \A a \in ArgLists, g \in GenIds, et \in ErrorTypeOptions, t \in Times :
        wrapped(a, g, et, t)
            => \E w \in DOMAIN wcalls' :
                  w.m = "wrap" /\ w.parametersStr = ClaimedParameters(a)

\* the report carries the parameters its wrapper call kept
ReportCarriesParameters ==
    \A w \in DOMAIN wcalls :
        (wcalls' = wcalls (-) SetToBag({w}) /\ ev'.by = "wrapper" /\ ev'.sent)
            => LET p == ev'.req.metric_value.json IN
               IF w.parametersStr = UNDEF THEN "parameters" \notin DOMAIN p
               ELSE p.parameters = w.parametersStr

\* C13: a function produced by wrap, invoked with exactly one argument x,
\* records parameters = the JSON encoding of x in its report, for every value
\* x; invoked with any other number of arguments it records the full ordered
\* argument list.
C13_WrapParameters == [][WrapKeepsParameters /\ ReportCarriesParameters]_vars

\* C14: every delivery attempt is bounded by the timeout: when the timer fires
\* on a pending send, the send ends as a logged error that is not raised; so,
\* the timer firing and the transport honouring the abort, every suspended
\* tracker call eventually returns, even though the server never answers.
C14_SendsBounded ==
    (\E s \in Suspended : s.by = "caller")
        ~> (ev.phase = "done" /\ ev.by = "caller" /\ ev.outcome = "resolved")

\* a backend tracker call returned after its request was aborted by the timer
C14_Witness ==
    /\ target = "backend"
    /\ ev.phase = "done"
    /\ ev.by = "caller"
    /\ ev.log = "error: timed out"
    /\ ev.outcome = "resolved"

\* the fixed suffix of the tracker's variant
VariantSuffix == IF target = "backend" THEN BackendSuffix ELSE FrontendSuffix

\* url is base without its last k characters, followed by suffix
TrimmedPlusSuffix(url, base, k, suffix) ==
    /\ Len(base) >= k
    /\ Len(url) = Len(base) - k + Len(suffix)
    /\ \A i \in 1..(Len(base) - k) : url[i] = base[i]
    /\ \A i \in 1..Len(suffix) : url[Len(base) - k + i] = suffix[i]

EndsWithSlash(s) == Len(s) > 0 /\ s[Len(s)] = "/"

\* the endpoint URL is the base URL less one trailing slash, if it has one,
\* followed by the suffix; unless the base URL ends in two slashes, the slash
\* before "v1" is not preceded by another one
UrlFromBase ==
    LET k == IF EndsWithSlash(baseUrl) THEN 1 ELSE 0
        p == Len(metricsUrl) - Len(VariantSuffix) + 1
    IN /\ TrimmedPlusSuffix(metricsUrl, baseUrl, k, VariantSuffix)
       /\ ~(Len(baseUrl) >= 2 /\ baseUrl[Len(baseUrl)] = "/" /\ baseUrl[Len(baseUrl) - 1] = "/")
             => (metricsUrl[p] = "/" /\ (p > 1 => metricsUrl[p - 1] # "/"))
       /\ ev.sent => ev.req.endpoint = metricsUrl

\* C15: for every base_url the endpoint URL computed at construction is
\* base_url with at most one trailing slash removed, followed by the variant's
\* fixed suffix; for a base_url ending in zero or one slash exactly one slash
\* separates the trimmed base from "v1"; no later operation recomputes or
\* changes the URL, and every request goes to it.
C15_EndpointUrl ==
    []UrlFromBase /\ [][metricsUrl' = metricsUrl /\ baseUrl' = baseUrl]_vars

\* a frontend tracker built with "h//" sent a request to "h/" + suffix
C15_Witness ==
    /\ target = "frontend"
    /\ baseUrl = <<"h", "/", "/">>
    /\ ev.sent
    /\ ev.req.endpoint = <<"h", "/">> \o FrontendSuffix
    /\ ev.phase = "call"

\* C16: every frontend tracker method writes the session state (session id,
\* start time, screen history, event count) before its first suspension point
\* only: no step that resumes a call suspended on its send writes any of it.
C16_NoWriteAfterResume ==
    [][(target = "frontend" /\ Progress) => UNCHANGED session]_vars

\* a trackWithMetadata call that goes on to its operation runs under the
\* caller's call id if the options give one, under a generated id otherwise
MetadataCallId ==
    \A o \in TrackOptions, g \in GenIds, t \in Times :
        (trackWithMetadata(o, g, t) /\ wcalls' # wcalls)
            => \E w \in DOMAIN wcalls' :
                  /\ w.m = "trackWithMetadata"
                  /\ w.callId = IF o.callId # UNDEF THEN o.callId ELSE g

\* when its operation settles, trackWithMetadata returns the value with the
\* call id and the duration its success report carries, or rethrows the error
\* and returns no metadata
MetadataReturned ==
    \A w \in DOMAIN wcalls :
        (w.m = "trackWithMetadata" /\ wcalls' = wcalls (-) SetToBag({w})
         /\ ev'.by = "wrapper")
            => IF ev'.w.op.kind = "value"
               THEN /\ ev'.w.out = ev'.w.op
                    /\ ev'.w.meta.callId = w.callId
                    /\ ev'.w.meta.durationMs >= 0
                    /\ ev'.sent =>
                         LET p == ev'.req.metric_value.json IN
                         /\ ev'.req.event_type = "tool_call"
                         /\ p.call_id = ev'.w.meta.callId
                         /\ p.duration_ms = ev'.w.meta.durationMs
               ELSE /\ ev'.w.out = ev'.w.op
                    /\ ev'.w.meta = NoMeta

\* C17: trackWithMetadata behaves as track and on success returns {result,
\* durationMs, callId}: result is the operation's value unchanged, callId the
\* caller-supplied call id if one was given and a generated one otherwise, and
\* callId and durationMs are the call_id and duration_ms of the success report
\* of that invocation; on failure it rejects with the original error and
\* returns no metadata.
C17_TrackWithMetadata == [][MetadataCallId /\ MetadataReturned]_vars

\* the event kind each method is stated to emit
StatedKind(method) ==
    CASE method \in {"trackButtonClick", "sendButtonClick"} -> "button_click"
      [] method = "trackSwipe" -> "motion_swipe"
      [] method = "trackScroll" -> "motion_scroll"
      [] method = "trackElementFocus" -> "element_focus"
      [] method \in {"trackLoadSuccess", "sendAppLoadSuccess"} -> "app_load_success"
      [] method \in {"trackLoadError", "sendAppLoadError"} -> "app_load_error"
      [] method \in {"startSession", "sendSessionStart"} -> "session_start"
      [] method \in {"endSession", "sendSessionEnd"} -> "session_end"
      [] method \in {"trackToolCall", "trackSuccess"} -> "tool_call"
      [] method \in {"trackToolError", "trackError"} -> "tool_error"

FrontendKinds ==
    {"button_click", "motion_swipe", "motion_scroll", "element_focus",
     "app_load_success", "app_load_error", "session_start", "session_end"}

\* C18: every request sent is a POST to the tracker's own endpoint carrying
\* the envelope {event_type, metric_value}, metric_value being the JSON text
\* of the payload; the backend tracker emits tool_call or tool_error only and
\* always sends the api-key header; the frontend tracker emits one of its
\* eight kinds, never sends an api-key header; each method emits its stated
\* kind.
C18_RequestShape ==
    ev.sent
        => /\ ev.req.method = "POST"
           /\ ev.req.endpoint = metricsUrl
           /\ DOMAIN ev.req = {"endpoint", "method", "api_key", "event_type", "metric_value"}
           /\ DOMAIN ev.req.metric_value = {"json"}
           /\ ev.req.event_type = StatedKind(ev.op)
           /\ IF target = "backend"
              THEN ev.req.api_key /\ ev.req.event_type \in {"tool_call", "tool_error"}
              ELSE ~ev.req.api_key /\ ev.req.event_type \in FrontendKinds

\* the raw sendSessionEnd of a frontend tracker sent a session_end without api key
C18_Witness ==
    /\ target = "frontend"
    /\ ev.sent
    /\ ev.op = "sendSessionEnd"
    /\ ev.req.event_type = "session_end"
    /\ ~ev.req.api_key

\* a step in which the wrapper dispatches a report
ReportStep ==
    /\ BagCardinality(sends') = BagCardinality(sends) + 1
    /\ ev'.by = "wrapper"
    /\ ev'.phase = "call"

\* the report of the wrapper call w, as the outcome of its operation demands
ReportMatches(w) ==
    LET p == ev'.req.metric_value.json IN
    /\ ev'.w.invoked = 1
    /\ ev'.sent
    /\ IF ev'.w.op.kind = "value"
       THEN /\ ev'.req.event_type = "tool_call"
            /\ p.status = "success"
            /\ ev'.w.report = "tool_call"
       ELSE /\ ev'.w.op.kind = "error"
            /\ ev'.req.event_type = "tool_error"
            /\ ev'.w.report = "tool_error"
            /\ p.error_type = IF w.errorType # UNDEF THEN w.errorType
                              ELSE ExpectedClass(ev'.w.op.val)

\* C19: with analytics enabled, every track / trackWithMetadata invocation
\* whose operation settles dispatches exactly one report: a step ends a wrapper
\* call iff it dispatches a report, each report ends the call it belongs to, and
\* it is a tool_call with status "success" iff the operation succeeded, else a
\* tool_error whose error_type is the caller's error type if one was given and
\* the inferred class otherwise.
C19_OneMatchingReport ==
    [][~disabled =>
         /\ (BagCardinality(wcalls') < BagCardinality(wcalls)) => ReportStep
         /\ ReportStep
               => \E w \in DOMAIN wcalls :
                     wcalls' = wcalls (-) SetToBag({w}) /\ ReportMatches(w)]_vars

\* a timeout failure was reported once, under the error type the caller gave
C19_Witness ==
    /\ ~disabled
    /\ ev.op = "trackError"
    /\ ev.by = "wrapper"
    /\ ev.w.op = [kind |-> "error", val |-> "E_timed"]
    /\ ev.sent
    /\ ev.req.metric_value.json.error_type = "validation"
    /\ wcalls = EmptyBag

\* JSON.stringify of v throws or yields no string
Unserializable(v) == JSONText(v) \in {THROWS, UNDEF}

\* C20: when the operation succeeds with a result that cannot be serialized
\* (JSON.stringify throws or yields no string), the wrapper still dispatches
\* the success report, without response_size_bytes, dispatches no error
\* report, and returns the result to its caller; a serializable result is
\* reported with the length of its JSON text.
C20_UnserializableResult ==
    (ev.w.invoked = 1 /\ ev.w.op.kind = "value")
        => /\ ev.op = "trackSuccess" /\ ev.by = "wrapper" /\ ev.phase = "call"
           /\ ev.w.report = "tool_call"
           /\ ev.w.out = ev.w.op
           /\ ev.sent = ~disabled
           /\ ev.sent =>
                LET p == ev.req.metric_value.json IN
                /\ ev.req.event_type = "tool_call"
                /\ p.status = "success"
                /\ IF Unserializable(ev.w.op.val)
                   THEN "response_size_bytes" \notin DOMAIN p
                   ELSE p.response_size_bytes = Len(JSONText(ev.w.op.val))

\* trackWithMetadata returned a self-referencing result and reported the
\* success without a size
C20_Witness ==
    /\ ev.w.m = "trackWithMetadata"
    /\ ev.w.op = [kind |-> "value", val |-> "circular"]
    /\ ev.w.out.val = "circular"
    /\ ev.sent
    /\ ev.req.event_type = "tool_call"
    /\ "response_size_bytes" \notin DOMAIN ev.req.metric_value.json

\* the four fields as stated, for an error, the caller's options and the type
\* tag of the variant (constructor name in the backend, name in the frontend)
StatedErrorFields(json, error, errorType, errorCode, tag) ==
    /\ json.error_message = ErrMessage(error)
    /\ json.error_code = IF errorCode # UNDEF THEN errorCode
                         ELSE IF IsError(error) THEN tag ELSE "Error"
    /\ ("stack_trace" \in DOMAIN json) => IsError(error)
    /\ json.error_type = IF errorType # UNDEF THEN errorType ELSE "unknown"

ErrorFieldsAsStated ==
    /\ \A e \in ReportedErrors, et \in ErrorTypeOptions, ec \in ErrorCodeOptions,
          t \in Times :
          (trackError(e, et, ec, t) /\ ev'.sent)
              => StatedErrorFields(ev'.req.metric_value.json, e, et, ec, ErrCtor(e))
    /\ \A s \in Screens, e \in ReportedErrors, et \in ErrorTypeOptions,
          ec \in ErrorCodeOptions :
          (trackLoadError(s, e, et, ec) /\ ev'.sent)
              => StatedErrorFields(ev'.req.metric_value.json, e, et, ec, ErrName(e))

\* C21: in backend trackError and frontend trackLoadError, error_message is
\* the error's message or the plain string itself; error_code is the caller's
\* override when supplied, else the error's type tag (constructor name in the
\* backend, name property in the frontend), else "Error" for a plain string;
\* stack_trace is present only for an error value; error_type is the caller's
\* value when supplied and "unknown" otherwise.
C21_ErrorFields == [][ErrorFieldsAsStated]_vars

\* a call of the frontend method named m made in this step
CalledNow(m) == ncalls' = ncalls + 1 /\ ev'.op = m /\ ev'.phase = "call"

\* the two raw session sends, at the call and when they resume
RawSessionSendsFrame ==
    /\ (CalledNow("sendSessionStart") \/ CalledNow("sendSessionEnd"))
          => (UNCHANGED session /\ getSessionId' = getSessionId)
    /\ (ev'.phase = "done" /\ ev'.op = "plain"
        /\ BagCardinality(sends') = BagCardinality(sends) - 1)
          => UNCHANGED session

\* the three raw event sends
RawEventSendsCount ==
    (CalledNow("sendButtonClick") \/ CalledNow("sendAppLoadSuccess")
     \/ CalledNow("sendAppLoadError"))
        => /\ eventCount' = eventCount + 1
           /\ screenHistory' =
                  IF Len(screenHistory) = 0
                     \/ screenHistory[Len(screenHistory)] # ev'.arg
                  THEN screenHistory \o <<ev'.arg>>
                  ELSE screenHistory
           /\ ev'.sent => ev'.req.metric_value.json.screen_name = ev'.arg
           /\ UNCHANGED <<sessionId, sessionStartTime>>

\* C22: sendSessionStart and sendSessionEnd leave all session state unchanged
\* (no session started or ended, getSessionId() unchanged, event_count and
\* screen_history untouched), while sendButtonClick, sendAppLoadSuccess and
\* sendAppLoadError each increment event_count by exactly 1 and apply the
\* screen-history update rule with the payload's screen_name.
C22_RawSends == [][RawSessionSendsFrame /\ RawEventSendsCount]_vars

\* a raw session_end was sent during an active session with counted events,
\* and the session is still there
C22_Witness ==
    /\ ev.op = "sendSessionEnd"
    /\ ev.phase = "call"
    /\ ev.sent
    /\ sessionId = "g1"
    /\ eventCount = 2
    /\ screenHistory = <<"A">>

\* the caller gave no value: the property is left out or is undefined
NoTimeoutGiven == given.timeout \in {Absent, NoNum}
NoDisabledGiven == given.disabled \in {"absent", UNDEF}

DefaultsApply ==
    /\ NoTimeoutGiven => (timeout = 5000 /\ (ev.sent => ev.timer = 5000))
    /\ NoDisabledGiven => (~disabled /\ (ev.phase = "call" => ev.sent))

ConfigFixed == UNCHANGED <<timeout, disabled, baseUrl, metricsUrl>>

\* C23: whenever the caller provides no timeout value the effective timeout
\* used for every send is 5000 ms, and whenever the caller provides no disabled
\* value the tracker is enabled; the effective configuration is fixed at
\* construction and no operation of either tracker or of the wrapper changes it.
C23_ConfigDefaults == []DefaultsApply /\ [][ConfigFixed]_vars

\* the requests in flight: sends past setTimeout, awaiting fetch or the body
InFlight == [x \in {y \in Suspended : y.pc \in {"fetch", "text"}} |-> sends[x]]

\* one timer per request in flight and none besides
TimerPerRequest == timers = BagCardinality(InFlight)

\* a step in which a timeout takes effect
AbortNow ==
    /\ ev'.phase = "done"
    /\ ev'.log = "error: timed out"
    /\ BagCardinality(sends') = BagCardinality(sends) - 1

\* a step in which sends end: it ends exactly one send, clears that send's timer
\* (if it had set one) and leaves every other send as it was; an abort ends a
\* send whose request was still in flight
EndsOneSend ==
    (BagCardinality(sends') < BagCardinality(sends))
        => \E s \in Suspended :
              /\ sends' = sends (-) SetToBag({s})
              /\ timers' = timers - (IF s.pc = "skip" THEN 0 ELSE 1)
              /\ AbortNow => s.pc \in {"fetch", "text"}

\* C24: concurrent delivery attempts are independent: each send has its own
\* timer and abort signal, so the timeout of one send aborts only that send's
\* request and never another in-flight request; when a send completes (with
\* any outcome) its timer is cancelled, so no abort fires for a request that
\* has already completed and no timer stays pending after its send returned.
C24_IndependentSends == []TimerPerRequest /\ [][EndsOneSend]_vars

\* one send timed out while another request stayed in flight with its timer
C24_Witness ==
    /\ ev.phase = "done"
    /\ ev.log = "error: timed out"
    /\ timers = 1
    /\ \E s \in Suspended : s.pc = "fetch"

\* C25: in every reachable state of a frontend tracker, under any interleaving
\* of un-awaited calls, session_id is absent iff start_time is absent (the two
\* are set together and cleared together), and event_count is >= 0.
C25_SessionFieldsTogether ==
    target = "frontend"
        => /\ (sessionId = NULL) <=> (sessionStartTime = NoTime)
           /\ eventCount >= 0

\* an endSession that was still awaiting its delivery when the next session
\* started has resumed and cleared both fields, with events counted
C25_Witness ==
    /\ ev.phase = "done"
    /\ ev.op = "end"
    /\ \E s \in Suspended : s.k = "start"
    /\ sessionId = NULL
    /\ sessionStartTime = NoTime
    /\ eventCount > 0

\* C26: at most one session_end event is emitted by endSession per started
\* session: if endSession is called several times for one startSession,
\* including calls issued back-to-back without awaiting the previous one, only
\* one of them emits session_end and the others are no-ops.
C26_OneSessionEnd == emitted <= 1

\* C27: a session started by startSession stays active until an endSession
\* call issued after that startSession: as long as no endSession has been
\* called since the startSession that set id X, getSessionId() returns X; in
\* particular an endSession of the previous session that is still awaiting its
\* delivery when the new session starts does not clear the new session.
C27_SessionStaysActive ==
    (target = "frontend" /\ refSessionId # NULL) => getSessionId = refSessionId

\* once no call is pending, the session id is the one the calls alone determine
BookkeepingByCallsOnly ==
    (target = "frontend" /\ sends = EmptyBag) => getSessionId = refSessionId

\* what a call does to the session state and what it returns is the same for a
\* disabled tracker and for every way its delivery ends
EffectsWithoutDelivery ==
    /\ CalledNow("startSession")
          => /\ sessionId' = refSessionId' /\ sessionId' # NULL
             /\ screenHistory' = <<>> /\ eventCount' = 0
             /\ \E s \in BagToSet(sends') : s.k = "start" /\ s.ret = sessionId'
    /\ (ncalls' = ncalls + 1 /\ Len(tracked') = Len(tracked) + 1)
          => /\ eventCount' = eventCount + 1
             /\ UNCHANGED <<sessionId, sessionStartTime>>
    /\ (target = "frontend" /\ BagCardinality(sends') = BagCardinality(sends) - 1)
          => /\ ev'.outcome = "resolved"
             /\ \E s \in Suspended : /\ sends' = sends (-) SetToBag({s})
                                     /\ ev'.ret = s.ret
                                     /\ s.k = "end" => sessionId' = NULL
             /\ UNCHANGED <<screenHistory, eventCount>>

\* C28: session bookkeeping does not depend on delivery: for any sequence of
\* frontend calls, the resulting session state (session id, screen_history,
\* event_count) and every return value are the same whether the tracker is
\* disabled, or enabled with deliveries that succeed, fail or time out; a
\* disabled tracker's startSession still returns and stores an id, its tracking
\* calls still count, and its endSession still clears the session.
C28_BookkeepingWithoutDelivery ==
    []BookkeepingByCallsOnly /\ [][EffectsWithoutDelivery]_vars

\* a counting call made in this step
CountingCallNow == ncalls' = ncalls + 1 /\ Len(tracked') = Len(tracked) + 1

\* a counting call made with no active session is delivered and counted
TrackingWithoutSession ==
    (CountingCallNow /\ sessionId = NULL)
        => /\ ev'.phase = "call"
           /\ ev'.sent = ~disabled
           /\ eventCount' = eventCount + 1
           /\ Len(screenHistory') > 0
           /\ screenHistory'[Len(screenHistory')] = ev'.arg

\* endSession, at its call and when it resumes, keeps the counters; they are
\* changed by counting calls and reset by startSession only
CountersResetByStartOnly ==
    /\ (ncalls' = ncalls + 1 /\ ev'.op = "endSession")
          => UNCHANGED <<screenHistory, eventCount>>
    /\ (BagCardinality(sends') = BagCardinality(sends) - 1)
          => UNCHANGED <<screenHistory, eventCount>>
    /\ (eventCount' < eventCount \/ Len(screenHistory') < Len(screenHistory))
          => (CalledNow("startSession") /\ eventCount' = 0 /\ screenHistory' = <<>>)
    /\ <<screenHistory, eventCount>>' # <<screenHistory, eventCount>>
          => (CalledNow("startSession") \/ CountingCallNow)

\* a session_end comes from an active session only and counts the calls made
\* between its startSession and the first endSession call after it, and a
\* session becomes active only with the counters reset: what was counted after
\* an endSession is in no session_end payload
OrphansNotReported ==
    /\ (CalledNow("endSession") /\ ev'.sent)
          => /\ sessionId # NULL
             /\ ev'.req.metric_value.json.total_events = Len(tracked) - afterEnd
    /\ (sessionId = NULL /\ sessionId' # NULL)
          => (CalledNow("startSession") /\ eventCount' = 0 /\ screenHistory' = <<>>
              /\ tracked' = <<>>)

\* C29: tracking calls do not require an active session and endSession does
\* not reset the counters: a tracking call made with no active session is
\* still delivered and still increments event_count and updates
\* screen_history; endSession leaves screen_history and event_count unchanged;
\* only startSession resets them, so events tracked between an endSession and
\* the next startSession are reported in no session_end payload.
C29_TrackingWithoutSession ==
    [][TrackingWithoutSession /\ CountersResetByStartOnly /\ OrphansNotReported]_vars

\* startSession called while a session is active: the new id is the active
\* session, the counters are reset, and the one request of the step is the
\* session_start of the new id (no session_end for the session replaced)
ReplacementStep ==
    (CalledNow("startSession") /\ sessionId # NULL)
        => /\ sessionId' # NULL
           /\ getSessionId' = sessionId'
           /\ \E s \in BagToSet(sends') :
                 /\ s.k = "start" /\ s.ret = sessionId'
                 /\ sends' = sends (+) SetToBag({s})
           /\ screenHistory' = <<>>
           /\ eventCount' = 0
           /\ ev'.sent = ~disabled
           /\ ev'.sent => /\ ev'.req.event_type = "session_start"
                          /\ ev'.req.metric_value.json.session_id = sessionId'

\* every session_end emitted later describes the session of the latest
\* startSession: its id and what was counted since that startSession, so the
\* counts of a replaced session are in no payload
ReplacedNotReported ==
    (CalledNow("endSession") /\ ev'.sent)
        => LET p == ev'.req.metric_value.json IN
           /\ p.session_id = sessionId
           /\ p.total_events = eventCount
           /\ p.total_events <= Len(tracked)
           /\ p.screens_visited <= Len(tracked)

\* the tracker holds one session id or none
AtMostOneSession == Cardinality({sessionId} \ {NULL}) <= 1

\* C30: calling startSession while a session is already active replaces it:
\* the new id becomes the active session, screen_history and event_count are
\* reset, a session_start is emitted for the new id, and no session_end is ever
\* emitted for the replaced session, whose accumulated counts are discarded; at
\* every moment at most one session is active.
C30_StartReplacesSession ==
    []AtMostOneSession /\ [][ReplacementStep /\ ReplacedNotReported]_vars

\* session g1 was replaced by session s1 while its own startSession was still
\* pending and after an event had been counted; the session_end sent afterwards
\* names s1 and counts nothing
C30_Witness ==
    /\ ev.op = "endSession"
    /\ ev.phase = "call"
    /\ ev.sent
    /\ ev.req.metric_value.json.session_id = "s1"
    /\ ev.req.metric_value.json.total_events = 0
    /\ ncalls = 4
    /\ emitted = 1
    /\ \E s \in Suspended : s.k = "start" /\ s.ret = "g1"

====
